---- MODULE Spec2Model ----
(***************************************************************************)
(* Hyperliquid agent deployer (src/server.js): deployToFargate and its     *)
(* helper ensureLogGroup, run against CloudWatch Logs and ECS.             *)
(*                                                                         *)
(* Strings are sequences of tokens, so that template literals are          *)
(* concatenations and String.prototype.includes is a search for a          *)
(* contiguous run of tokens.  Every awaited platform call is one step: the *)
(* platform answers with success or with one error of a small set, and a   *)
(* rejected call leaves the platform unchanged.                            *)
(***************************************************************************)
EXTENDS Integers, Sequences, FiniteSets, TLC

(* ------------------------------ bounds -------------------------------- *)
NumAgents == 1
NumProcs == 2
MaxRevisions == 3

AgentIds == {ToString(i) : i \in 1..NumAgents}
Procs == 1..NumProcs

(* ------------------------------ strings ------------------------------- *)
Includes(hay, needle) ==
  \E i \in 0..(Len(hay) - Len(needle)) :
     \A j \in 1..Len(needle) : hay[i + j] = needle[j]

(* An encoding that leaves every character as it is. *)
EncodeTokenIdentity(t) == t

EncodeToken(t) == IF t = "/" THEN "%2F" ELSE t

encodeURIComponent(s) == [i \in 1..Len(s) |-> EncodeToken(s[i])]

(* --------------------------- configuration ---------------------------- *)
AWS_REGION == "us-east-1"
ECS_CLUSTER == "hyperliquid-agents"
RetentionInDays == 30
DesiredCount == 1
MaximumPercent == 200
MinimumHealthyPercent == 100

(* ------------------------------- errors ------------------------------- *)
NoError == [name |-> "", message |-> <<>>]

ResourceAlreadyExists ==
  [name |-> "ResourceAlreadyExistsException",
   message |-> <<"The", "specified", "log", "group", "already", "exists">>]

AccessDenied ==
  [name |-> "AccessDeniedException",
   message |-> <<"User", "is", "not", "authorized">>]

ClientException ==
  [name |-> "ClientException",
   message |-> <<"Invalid", "setting", "for", "container">>]

ServiceNotActive ==
  [name |-> "ServiceNotActiveException",
   message |-> <<"Service", "was", "not", "ACTIVE", ".">>]

ServiceNotFound ==
  [name |-> "ServiceNotFoundException",
   message |-> <<"Service", "not", "found", ".">>]

ClusterNotFound ==
  [name |-> "ClusterNotFoundException",
   message |-> <<"Cluster", "not", "found", ".">>]

LogsErrors == {AccessDenied}
EcsErrors == {ServiceNotActive, ServiceNotFound, ClusterNotFound}

JsError(msg) == [name |-> "Error", message |-> msg]

(* ------------------------ derived resource names ---------------------- *)
logGroupNameOf(agentId) ==
  <<"/", "ecs", "/", "hyperliquid-agents", "/", agentId>>

(* One family for every agent. *)
taskFamilyShared(agentId) == <<"hyperliquid-agent">>

taskFamilyOf(agentId) == <<"hyperliquid-agent-", agentId>>

serviceNameOf(agentId) == <<"agent-svc-", agentId>>

serviceArnOf(serviceName) ==
  <<"arn:aws:ecs:", AWS_REGION, ":service/", ECS_CLUSTER, "/">> \o serviceName

logUrlOf(logGroupName) ==
  <<"https://", AWS_REGION, ".console.aws.amazon.com/cloudwatch/home?region=",
    AWS_REGION, "#logsV2:log-groups/log-group/">>
  \o encodeURIComponent(logGroupName)

(* ------------------------------- state -------------------------------- *)
VARIABLES
  env,        \* SUBNET_IDS, SECURITY_GROUP_IDS, ECS_EXECUTION_ROLE_ARN
  logGroups,  \* CloudWatch: the log groups
  taskDefs,   \* ECS: the registered task-definition revisions
  services,   \* ECS: the service records of the cluster
  pc,         \* per invocation: the await it is suspended at
  frame,      \* per invocation: the locals of deployToFargate
  result,     \* per invocation: the value returned
  error,      \* per invocation: the error thrown to the caller
  calls,      \* per invocation: the platform calls issued so far
  before,     \* per invocation: the agent's service and revisions at entry
  returned,   \* the results returned so far
  agents,     \* Supabase: the rows of the agents table, by id
  response    \* per /deploy request: the response sent

vars == <<env, logGroups, taskDefs, services, pc, frame, result, error,
          calls, before, returned, agents, response>>

platform == <<logGroups, taskDefs, services>>

SUBNET_IDS == env.SUBNET_IDS
SECURITY_GROUP_IDS == env.SECURITY_GROUP_IDS
ECS_EXECUTION_ROLE_ARN == env.ECS_EXECUTION_ROLE_ARN

NoArn == [family |-> <<>>, revision |-> 0]

NoService ==
  [serviceName |-> <<>>, status |-> "ABSENT", taskDefinition |-> NoArn,
   desiredCount |-> 0, maximumPercent |-> 0, minimumHealthyPercent |-> 0,
   runningOld |-> 0, runningNew |-> 0]

NoFrame ==
  [agentId |-> "", logGroupName |-> <<>>, taskDefArn |-> NoArn,
   serviceArn |-> <<>>, updateErr |-> NoError, deleteErr |-> NoError]

NoSnapshot ==
  [status |-> "ABSENT", taskDefinition |-> NoArn, desiredCount |-> 0,
   latestRevision |-> 0]

NoResult ==
  [serviceArn |-> <<>>, taskDefArn |-> NoArn, logGroupName |-> <<>>,
   logUrl |-> <<>>]

NoAgent == [status |-> "", agent_deployed |-> FALSE, deployment |-> <<>>]

NoResponse == [code |-> 0]

(* The service record named n, NoService when there is none. *)
ServiceNamed(n) ==
  IF \E s \in services : s.serviceName = n
  THEN CHOOSE s \in services : s.serviceName = n
  ELSE NoService

LogGroupExists(n) == \E g \in logGroups : g.logGroupName = n

Revisions(family) == {t \in taskDefs : t.family = family}

LatestRevision(family) ==
  IF Revisions(family) = {} THEN 0
  ELSE CHOOSE r \in {t.revision : t \in Revisions(family)} :
         \A t \in Revisions(family) : t.revision <= r

(* A call as issued and answered: its operation, the error it was rejected
   with (NoError when accepted), the force or forceNewDeployment flag it
   carried, and whether a describe listed a service. *)
Call(op, err, force, found) ==
  [op |-> op, ok |-> err = NoError, err |-> err, force |-> force,
   found |-> found]

Record(p, op, err, force, found) ==
  calls' = [calls EXCEPT ![p] = Append(@, Call(op, err, force, found))]

(* --------------------------- initial states --------------------------- *)
InitialTaskDef(a) ==
  [family |-> taskFamilyOf(a), revision |-> 1,
   logGroup |-> logGroupNameOf(a), agentId |-> a]

InitialService(a, status) ==
  [serviceName |-> serviceNameOf(a), status |-> status,
   taskDefinition |-> [family |-> taskFamilyOf(a), revision |-> 1],
   desiredCount |-> IF status = "ACTIVE" THEN DesiredCount ELSE 0,
   maximumPercent |-> MaximumPercent,
   minimumHealthyPercent |-> MinimumHealthyPercent,
   runningOld |-> 0,
   runningNew |-> IF status = "ACTIVE" THEN DesiredCount ELSE 0]

Envs ==
  [SUBNET_IDS : {<<>>, <<"subnet-1">>},
   SECURITY_GROUP_IDS : {<<>>, <<"sg-1">>},
   ECS_EXECUTION_ROLE_ARN : {"", "arn:aws:iam::role/ecsTaskExecutionRole"}]

(* The agents of ids: each with no service, an ACTIVE one or an INACTIVE
   one left by earlier deployments, and no row in the agents table. *)
InitOver(ids) ==
  /\ env \in Envs
  /\ \E st \in [ids -> {"ABSENT", "ACTIVE", "INACTIVE"}] :
       /\ services = {InitialService(a, st[a]) : a \in {b \in ids : st[b] # "ABSENT"}}
       /\ taskDefs = {InitialTaskDef(a) : a \in {b \in ids : st[b] # "ABSENT"}}
       /\ logGroups = {[logGroupName |-> logGroupNameOf(a),
                        retentionInDays |-> RetentionInDays] :
                         a \in {b \in ids : st[b] # "ABSENT"}}
  /\ agents = [a \in ids |-> NoAgent]
  /\ response = [p \in Procs |-> NoResponse]
  /\ pc = [p \in Procs |-> "idle"]
  /\ frame = [p \in Procs |-> NoFrame]
  /\ result = [p \in Procs |-> NoResult]
  /\ error = [p \in Procs |-> NoError]
  /\ calls = [p \in Procs |-> <<>>]
  /\ before = [p \in Procs |-> NoSnapshot]
  /\ returned = {}

Init == InitOver(AgentIds)

(* ------------------------- deployToFargate ---------------------------- *)
Throw(p, e) ==
  /\ pc' = [pc EXCEPT ![p] = "failed"]
  /\ error' = [error EXCEPT ![p] = e]

Goto(p, label) ==
  /\ pc' = [pc EXCEPT ![p] = label]
  /\ UNCHANGED error

(* The checks of lines 124-132 without the one of the subnets. *)
ConfigErrorIgnoringSubnets ==
  IF Len(SECURITY_GROUP_IDS) = 0
  THEN JsError(<<"SECURITY_GROUP_IDS", "environment", "variable", "is", "required">>)
  ELSE IF ECS_EXECUTION_ROLE_ARN = ""
  THEN JsError(<<"ECS_EXECUTION_ROLE_ARN", "environment", "variable", "is", "required">>)
  ELSE NoError

(* Lines 124-132: the configuration error, NoError when the checks pass. *)
ConfigError ==
  IF Len(SUBNET_IDS) = 0
  THEN JsError(<<"SUBNET_IDS", "environment", "variable", "is", "required">>)
  ELSE IF Len(SECURITY_GROUP_IDS) = 0
  THEN JsError(<<"SECURITY_GROUP_IDS", "environment", "variable", "is", "required">>)
  ELSE IF ECS_EXECUTION_ROLE_ARN = ""
  THEN JsError(<<"ECS_EXECUTION_ROLE_ARN", "environment", "variable", "is", "required">>)
  ELSE NoError

(* What an invocation finds at entry: the agent's live service (an ACTIVE
   one; a deleted or purged one is no live service) and the newest revision
   of its family. *)
Snapshot(a) ==
  LET s == ServiceNamed(serviceNameOf(a)) IN
  [status |-> IF s.status = "ACTIVE" THEN "ACTIVE" ELSE "ABSENT",
   taskDefinition |-> IF s.status = "ACTIVE" THEN s.taskDefinition ELSE NoArn,
   desiredCount |-> IF s.status = "ACTIVE" THEN s.desiredCount ELSE 0,
   latestRevision |-> LatestRevision(taskFamilyOf(a))]

(* Entry of deployToFargate(agentId, credentials) up to its first await. *)
Enter(p, a) ==
  /\ pc[p] = "idle"
  /\ frame' = [frame EXCEPT ![p] = [NoFrame EXCEPT !.agentId = a]]
  /\ before' = [before EXCEPT ![p] = Snapshot(a)]
  /\ calls' = [calls EXCEPT ![p] = <<>>]
  /\ result' = [result EXCEPT ![p] = NoResult]
  /\ IF ConfigError # NoError
     THEN Throw(p, ConfigError)
     ELSE /\ pc' = [pc EXCEPT ![p] = "CreateLogGroup"]
          /\ error' = [error EXCEPT ![p] = NoError]
  /\ UNCHANGED <<env, platform, returned>>

(* A deployment started while the revisions registered are within the
   bound. *)
Start(p, a) ==
  /\ Cardinality(taskDefs) < MaxRevisions
  /\ Enter(p, a)
  /\ UNCHANGED <<agents, response>>

(* A catch that rethrows whatever CreateLogGroup answered. *)
CreateLogGroupRethrowsAll(err) == TRUE

(* A catch that swallows whatever CreateLogGroup answered. *)
CreateLogGroupRethrowsNone(err) == FALSE

(* ensureLogGroup, line 107: whether the catch rethrows the error. *)
CreateLogGroupRethrows(err) == err.name # "ResourceAlreadyExistsException"

(* CloudWatch's answers to CreateLogGroup: NoError is success. *)
CreateLogGroupAnswers(n) ==
  IF LogGroupExists(n) THEN {ResourceAlreadyExists} \cup LogsErrors
  ELSE {NoError} \cup LogsErrors

(* ensureLogGroup, lines 103-108. *)
CreateLogGroup(p) ==
  /\ pc[p] = "CreateLogGroup"
  /\ LET n == logGroupNameOf(frame[p].agentId) IN
     \E r \in CreateLogGroupAnswers(n) :
       /\ logGroups' = IF r = NoError
                       THEN logGroups \cup {[logGroupName |-> n, retentionInDays |-> 0]}
                       ELSE logGroups
       /\ Record(p, "CreateLogGroup", r, FALSE, FALSE)
       /\ IF r # NoError /\ CreateLogGroupRethrows(r)
          THEN Throw(p, r)
          ELSE Goto(p, "PutRetentionPolicy")
  /\ UNCHANGED <<env, agents, response, taskDefs, services, frame, result, before, returned>>

(* A catch that rethrows whatever PutRetentionPolicy answered. *)
PutRetentionPolicyRethrowsAll(err) == TRUE

(* ensureLogGroup, lines 114-116: the catch only warns. *)
PutRetentionPolicyRethrows(err) == FALSE

(* ensureLogGroup, lines 109-117, and the assignment of line 134. *)
PutRetentionPolicy(p) ==
  /\ pc[p] = "PutRetentionPolicy"
  /\ LET n == logGroupNameOf(frame[p].agentId) IN
     \E r \in {NoError} \cup LogsErrors :
       /\ logGroups' = IF r = NoError
                       THEN {IF g.logGroupName = n
                             THEN [g EXCEPT !.retentionInDays = RetentionInDays]
                             ELSE g : g \in logGroups}
                       ELSE logGroups
       /\ Record(p, "PutRetentionPolicy", r, FALSE, FALSE)
       /\ IF r # NoError /\ PutRetentionPolicyRethrows(r)
          THEN /\ UNCHANGED frame
               /\ Throw(p, r)
          ELSE /\ frame' = [frame EXCEPT ![p].logGroupName = n]
               /\ Goto(p, "RegisterTaskDefinition")
  /\ UNCHANGED <<env, agents, response, taskDefs, services, result, before, returned>>

(* A registration that writes over the newest revision of the family. *)
NewTaskDefReusingRevision(p) ==
  LET family == taskFamilyOf(frame[p].agentId) IN
  [family |-> family,
   revision |-> IF LatestRevision(family) = 0 THEN 1 ELSE LatestRevision(family),
   logGroup |-> frame[p].logGroupName, agentId |-> frame[p].agentId]

(* The revision RegisterTaskDefinition is asked to register (lines 137-183). *)
NewTaskDef(p) ==
  LET family == taskFamilyOf(frame[p].agentId) IN
  [family |-> family, revision |-> LatestRevision(family) + 1,
   logGroup |-> frame[p].logGroupName, agentId |-> frame[p].agentId]

(* Lines 148-185. *)
RegisterTaskDefinition(p) ==
  /\ pc[p] = "RegisterTaskDefinition"
  /\ \E r \in {NoError, ClientException} :
       /\ Record(p, "RegisterTaskDefinition", r, FALSE, FALSE)
       /\ IF r = NoError
          THEN /\ taskDefs' = taskDefs \cup {NewTaskDef(p)}
               /\ frame' = [frame EXCEPT ![p].taskDefArn =
                              [family |-> NewTaskDef(p).family,
                               revision |-> NewTaskDef(p).revision]]
               /\ Goto(p, "DescribeServices")
          ELSE /\ UNCHANGED <<taskDefs, frame>>
               /\ Throw(p, r)
  /\ UNCHANGED <<env, agents, response, logGroups, services, result, before, returned>>

(* ----------------------- service reconciliation ----------------------- *)
ThisService(p) == ServiceNamed(serviceNameOf(frame[p].agentId))

(* An outer catch that takes every error for an absent service. *)
IsNotFoundAlways(err) == TRUE

(* Line 265: the outer catch takes the error for an absent service. *)
IsNotFound(err) ==
  \/ err.name = "ServiceNotFoundException"
  \/ Includes(err.message, <<"not", "found">>)

(* Line 255. *)
UpdateOrDeleteError(updateErr, deleteErr) ==
  JsError(<<"Failed to update or delete service: ">> \o updateErr.message
          \o <<". Delete attempt: ">> \o deleteErr.message)

(* Line 270. *)
CreateError(createErr) ==
  JsError(<<"Failed to create service: ">> \o createErr.message)

(* Line 273. *)
StatusCheckError(err) ==
  JsError(<<"Failed to check service status: ">> \o err.message)

(* A catch that answers a service not found by asking again. *)
OuterCatchRetrying(p, err) ==
  IF IsNotFound(err)
  THEN Goto(p, "DescribeServices")
  ELSE Throw(p, StatusCheckError(err))

(* A catch that answers a service not found with the delete-and-recreate
   recovery. *)
OuterCatchDeleting(p, err) ==
  IF IsNotFound(err)
  THEN Goto(p, "DeleteService")
  ELSE Throw(p, StatusCheckError(err))

(* Lines 263-275: the catch around the whole of lines 214-262, entered with
   whatever was thrown there. *)
OuterCatch(p, err) ==
  IF IsNotFound(err)
  THEN Goto(p, "CreateAfterNotFound")
  ELSE Throw(p, StatusCheckError(err))

(* A response without the service handle: reading it throws after the
   platform has acted. *)
ReturnThrowing(p, serviceArn) ==
  /\ Throw(p, [name |-> "TypeError",
               message |-> <<"Cannot", "read", "properties", "of", "undefined">>])
  /\ UNCHANGED <<frame, result, returned>>

(* Lines 277-282: the value returned. *)
ResultOf(p, serviceArn) ==
  [serviceArn |-> serviceArn, taskDefArn |-> frame[p].taskDefArn,
   logGroupName |-> frame[p].logGroupName,
   logUrl |-> logUrlOf(frame[p].logGroupName)]

Return(p, serviceArn) ==
  /\ frame' = [frame EXCEPT ![p].serviceArn = serviceArn]
  /\ result' = [result EXCEPT ![p] = ResultOf(p, serviceArn)]
  /\ returned' = returned \cup {ResultOf(p, serviceArn)}
  /\ pc' = [pc EXCEPT ![p] = "done"]
  /\ UNCHANGED error

(* ECS's answer to DescribeServices for one name: the record of that name
   in any status, nothing when there is none. *)
Described(n) == {s \in services : s.serviceName = n}

(* Lines 215-220, 258-262. *)
DescribeServices(p) ==
  /\ pc[p] = "DescribeServices"
  /\ LET desc == Described(serviceNameOf(frame[p].agentId)) IN
     \E r \in {NoError} \cup EcsErrors :
       /\ Record(p, "DescribeServices", r, FALSE,
                 r = NoError /\ desc # {})
       /\ IF r = NoError
          THEN IF Cardinality(desc) > 0
               THEN Goto(p, "UpdateService")
               ELSE Goto(p, "CreateService")
          ELSE OuterCatch(p, r)
  /\ UNCHANGED <<env, agents, response, platform, frame, result, before, returned>>

(* An update that leaves the service on the task definition it has. *)
UpdateServiceInputStale(p) ==
  [taskDefinition |-> ThisService(p).taskDefinition,
   forceNewDeployment |-> TRUE, desiredCount |-> DesiredCount,
   maximumPercent |-> MaximumPercent,
   minimumHealthyPercent |-> MinimumHealthyPercent]

(* An update that lets the rollout stop the old task first. *)
UpdateServiceInputNoMinimum(p) ==
  [taskDefinition |-> frame[p].taskDefArn, forceNewDeployment |-> TRUE,
   desiredCount |-> DesiredCount, maximumPercent |-> MaximumPercent,
   minimumHealthyPercent |-> 0]

(* The UpdateServiceCommand of lines 225-235. *)
UpdateServiceInput(p) ==
  [taskDefinition |-> frame[p].taskDefArn, forceNewDeployment |-> TRUE,
   desiredCount |-> DesiredCount, maximumPercent |-> MaximumPercent,
   minimumHealthyPercent |-> MinimumHealthyPercent]

(* ECS applying an accepted update: a forced deployment replaces every
   running task. *)
Updated(s, in) ==
  [s EXCEPT !.taskDefinition = in.taskDefinition,
            !.desiredCount = in.desiredCount,
            !.maximumPercent = in.maximumPercent,
            !.minimumHealthyPercent = in.minimumHealthyPercent,
            !.runningOld = IF in.forceNewDeployment
                               \/ in.taskDefinition # s.taskDefinition
                           THEN s.runningOld + s.runningNew ELSE s.runningOld,
            !.runningNew = IF in.forceNewDeployment
                               \/ in.taskDefinition # s.taskDefinition
                           THEN 0 ELSE s.runningNew]

(* Lines 224-240. ECS accepts an update of an ACTIVE service only. *)
UpdateService(p) ==
  /\ pc[p] = "UpdateService"
  /\ LET s == ThisService(p)
         in == UpdateServiceInput(p) IN
     \E r \in (IF s.status = "ACTIVE" THEN {NoError} ELSE {}) \cup EcsErrors :
       /\ Record(p, "UpdateService", r, in.forceNewDeployment, FALSE)
       /\ IF r = NoError
          THEN /\ services' = (services \ {s}) \cup {Updated(s, in)}
               /\ Return(p, serviceArnOf(s.serviceName))
          ELSE /\ UNCHANGED <<services, result, returned>>
               /\ frame' = [frame EXCEPT ![p].updateErr = r]
               /\ Goto(p, "DeleteService")
  /\ UNCHANGED <<env, agents, response, logGroups, taskDefs, before>>

(* A deletion that is not forced. *)
DeleteServiceInputUnforced(p) == [force |-> FALSE]

(* The DeleteServiceCommand of lines 243-247. *)
DeleteServiceInput(p) == [force |-> TRUE]

(* ECS deletes a service that still has tasks only when forced. *)
DeleteAccepted(s, in) ==
  /\ s.status # "ABSENT"
  /\ in.force \/ s.runningOld + s.runningNew = 0

Deleted(s) ==
  IF s.status = "ACTIVE"
  THEN [s EXCEPT !.status = "DRAINING", !.desiredCount = 0,
                 !.runningOld = s.runningOld + s.runningNew, !.runningNew = 0]
  ELSE s

(* Lines 241-248, 254-256. *)
DeleteService(p) ==
  /\ pc[p] = "DeleteService"
  /\ LET s == ThisService(p)
         in == DeleteServiceInput(p) IN
     \E r \in (IF DeleteAccepted(s, in) THEN {NoError} ELSE {}) \cup EcsErrors :
       /\ Record(p, "DeleteService", r, in.force, FALSE)
       /\ IF r = NoError
          THEN /\ services' = (services \ {s}) \cup {Deleted(s)}
               /\ UNCHANGED frame
               /\ Goto(p, "Wait")
          ELSE /\ UNCHANGED services
               /\ frame' = [frame EXCEPT ![p].deleteErr = r]
               /\ OuterCatch(p, UpdateOrDeleteError(frame[p].updateErr, r))
  /\ UNCHANGED <<env, agents, response, logGroups, taskDefs, result, before, returned>>

(* Line 250: the fixed delay. *)
Wait(p) ==
  /\ pc[p] = "Wait"
  /\ Record(p, "Wait", NoError, FALSE, FALSE)
  /\ Goto(p, "RecreateService")
  /\ UNCHANGED <<env, agents, response, platform, frame, result, before, returned>>

(* A creation that asks for no instance. *)
CreateServiceInputNoInstance(p) ==
  [serviceName |-> serviceNameOf(frame[p].agentId), status |-> "ACTIVE",
   taskDefinition |-> frame[p].taskDefArn, desiredCount |-> 0,
   maximumPercent |-> MaximumPercent,
   minimumHealthyPercent |-> MinimumHealthyPercent,
   runningOld |-> 0, runningNew |-> 0]

(* A creation under a name of the revision rather than of the agent. *)
CreateServiceInputPerRevision(p) ==
  [serviceName |-> serviceNameOf(frame[p].agentId)
                     \o <<"-", ToString(frame[p].taskDefArn.revision)>>,
   status |-> "ACTIVE",
   taskDefinition |-> frame[p].taskDefArn, desiredCount |-> DesiredCount,
   maximumPercent |-> MaximumPercent,
   minimumHealthyPercent |-> MinimumHealthyPercent,
   runningOld |-> 0, runningNew |-> 0]

(* The CreateServiceCommand of lines 191-208. *)
CreateServiceInput(p) ==
  [serviceName |-> serviceNameOf(frame[p].agentId), status |-> "ACTIVE",
   taskDefinition |-> frame[p].taskDefArn, desiredCount |-> DesiredCount,
   maximumPercent |-> MaximumPercent,
   minimumHealthyPercent |-> MinimumHealthyPercent,
   runningOld |-> 0, runningNew |-> 0]

(* ECS accepts a creation when no service of the name is ACTIVE or
   DRAINING. *)
CreateAccepted(s) == s.status \in {"ABSENT", "INACTIVE"}

CreateAnswers(s) ==
  (IF CreateAccepted(s) THEN {NoError} ELSE {}) \cup EcsErrors

Created(p) == (services \ {ThisService(p)}) \cup {CreateServiceInput(p)}

(* createNewService called at line 260: service absent. *)
CreateService(p) ==
  /\ pc[p] = "CreateService"
  /\ \E r \in CreateAnswers(ThisService(p)) :
       /\ Record(p, "CreateService", r, FALSE, FALSE)
       /\ IF r = NoError
          THEN /\ services' = Created(p)
               /\ Return(p, serviceArnOf(serviceNameOf(frame[p].agentId)))
          ELSE /\ UNCHANGED <<services, frame, result, returned>>
               /\ OuterCatch(p, r)
  /\ UNCHANGED <<env, agents, response, logGroups, taskDefs, before>>

(* createNewService called at line 252: after the delete and the delay. *)
RecreateService(p) ==
  /\ pc[p] = "RecreateService"
  /\ \E r \in CreateAnswers(ThisService(p)) :
       /\ Record(p, "CreateService", r, FALSE, FALSE)
       /\ IF r = NoError
          THEN /\ services' = Created(p)
               /\ Return(p, serviceArnOf(serviceNameOf(frame[p].agentId)))
          ELSE /\ UNCHANGED <<services, result, returned>>
               /\ frame' = [frame EXCEPT ![p].deleteErr = r]
               /\ OuterCatch(p, UpdateOrDeleteError(frame[p].updateErr, r))
  /\ UNCHANGED <<env, agents, response, logGroups, taskDefs, before>>

(* createNewService called at line 267: in the outer catch. *)
CreateAfterNotFound(p) ==
  /\ pc[p] = "CreateAfterNotFound"
  /\ \E r \in CreateAnswers(ThisService(p)) :
       /\ Record(p, "CreateService", r, FALSE, FALSE)
       /\ IF r = NoError
          THEN /\ services' = Created(p)
               /\ Return(p, serviceArnOf(serviceNameOf(frame[p].agentId)))
          ELSE /\ UNCHANGED <<services, frame, result, returned>>
               /\ Throw(p, CreateError(r))
  /\ UNCHANGED <<env, agents, response, logGroups, taskDefs, before>>

(* The caller has taken the outcome; the invocation is over. *)
Finish(p) ==
  /\ pc[p] \in {"done", "failed"}
  /\ pc' = [pc EXCEPT ![p] = "idle"]
  /\ frame' = [frame EXCEPT ![p] = NoFrame]
  /\ result' = [result EXCEPT ![p] = NoResult]
  /\ error' = [error EXCEPT ![p] = NoError]
  /\ calls' = [calls EXCEPT ![p] = <<>>]
  /\ before' = [before EXCEPT ![p] = NoSnapshot]
  /\ UNCHANGED <<env, agents, response, platform, returned>>

(* --------------------------- ECS scheduler ---------------------------- *)
Running(s) == s.runningOld + s.runningNew

(* A task of the current deployment starts, within maximumPercent. *)
StartTask(s) ==
  /\ s \in services
  /\ s.status = "ACTIVE"
  /\ s.runningNew < s.desiredCount
  /\ (Running(s) + 1) * 100 <= s.desiredCount * s.maximumPercent
  /\ services' = (services \ {s}) \cup {[s EXCEPT !.runningNew = @ + 1]}
  /\ UNCHANGED <<env, agents, response, logGroups, taskDefs, pc, frame, result, error, calls,
                 before, returned>>

(* A task of a replaced deployment stops, keeping minimumHealthyPercent of
   the desired count running while the service is ACTIVE. *)
StopTask(s) ==
  /\ s \in services
  /\ s.runningOld > 0
  /\ \/ s.status # "ACTIVE"
     \/ (Running(s) - 1) * 100 >= s.desiredCount * s.minimumHealthyPercent
  /\ services' = (services \ {s}) \cup {[s EXCEPT !.runningOld = @ - 1]}
  /\ UNCHANGED <<env, agents, response, logGroups, taskDefs, pc, frame, result, error, calls,
                 before, returned>>

(* A deleted service whose tasks have stopped becomes INACTIVE. *)
Drained(s) ==
  /\ s \in services
  /\ s.status = "DRAINING"
  /\ Running(s) = 0
  /\ services' = (services \ {s}) \cup {[s EXCEPT !.status = "INACTIVE"]}
  /\ UNCHANGED <<env, agents, response, logGroups, taskDefs, pc, frame, result, error, calls,
                 before, returned>>

(* ECS forgets an INACTIVE service after a while. *)
Purged(s) ==
  /\ s \in services
  /\ s.status = "INACTIVE"
  /\ services' = services \ {s}
  /\ UNCHANGED <<env, agents, response, logGroups, taskDefs, pc, frame, result, error, calls,
                 before, returned>>

(* --------------------------- specification ---------------------------- *)
(* /deploy requests served one after the other. *)
SequentialStart(p, a) ==
  /\ \A q \in Procs : pc[q] = "idle"
  /\ Start(p, a)

Next ==
  \/ \E p \in Procs, a \in AgentIds : SequentialStart(p, a)
  \/ \E p \in Procs : CreateLogGroup(p)
  \/ \E p \in Procs : PutRetentionPolicy(p)
  \/ \E p \in Procs : RegisterTaskDefinition(p)
  \/ \E p \in Procs : DescribeServices(p)
  \/ \E p \in Procs : UpdateService(p)
  \/ \E p \in Procs : DeleteService(p)
  \/ \E p \in Procs : Wait(p)
  \/ \E p \in Procs : CreateService(p)
  \/ \E p \in Procs : RecreateService(p)
  \/ \E p \in Procs : CreateAfterNotFound(p)
  \/ \E p \in Procs : Finish(p)
  \/ \E s \in services : StartTask(s)
  \/ \E s \in services : StopTask(s)
  \/ \E s \in services : Drained(s)
  \/ \E s \in services : Purged(s)

Spec == Init /\ [][Next]_vars

(* The next step of invocation p: the call it awaits is answered and its
   code runs on to the next await, the return or the throw. *)
Proceed(p) ==
  \/ CreateLogGroup(p)
  \/ PutRetentionPolicy(p)
  \/ RegisterTaskDefinition(p)
  \/ DescribeServices(p)
  \/ UpdateService(p)
  \/ DeleteService(p)
  \/ Wait(p)
  \/ CreateService(p)
  \/ RecreateService(p)
  \/ CreateAfterNotFound(p)

(* Every awaited call is answered in the end, with a value or an error, and
   the timer of line 250 fires. *)
FairSpec == Spec /\ \A p \in Procs : WF_vars(Proceed(p))

(* ----------------------- concurrent deployments ----------------------- *)
(* The steps of deployToFargate and of the platform, whoever runs them. *)
Step ==
  \/ \E p \in Procs : CreateLogGroup(p)
  \/ \E p \in Procs : PutRetentionPolicy(p)
  \/ \E p \in Procs : RegisterTaskDefinition(p)
  \/ \E p \in Procs : DescribeServices(p)
  \/ \E p \in Procs : UpdateService(p)
  \/ \E p \in Procs : DeleteService(p)
  \/ \E p \in Procs : Wait(p)
  \/ \E p \in Procs : CreateService(p)
  \/ \E p \in Procs : RecreateService(p)
  \/ \E p \in Procs : CreateAfterNotFound(p)
  \/ \E s \in services : StartTask(s)
  \/ \E s \in services : StopTask(s)
  \/ \E s \in services : Drained(s)
  \/ \E s \in services : Purged(s)

(* Requests in flight together for the same agents: no lock, queue or
   per-agent state stands between the handler and deployToFargate (line
   346).  Every request runs deployToFargate once. *)
RaceStart(p, a) ==
  /\ Enter(p, a)
  /\ UNCHANGED <<agents, response>>

RaceNext ==
  \/ \E p \in Procs, a \in AgentIds : RaceStart(p, a)
  \/ Step

RaceSpec == Init /\ [][RaceNext]_vars

(* Requests in flight together, each for an agent of its own. *)
OwnAgent(p) == ToString(p)

OwnAgentIds == {OwnAgent(p) : p \in Procs}

OwnInit == InitOver(OwnAgentIds)

OwnStart(p) ==
  /\ Enter(p, OwnAgent(p))
  /\ UNCHANGED <<agents, response>>

OwnNext ==
  \/ \E p \in Procs : OwnStart(p)
  \/ Step

OwnSpec == OwnInit /\ [][OwnNext]_vars

(* ------------------------------ /deploy -------------------------------- *)
ECR_REPOSITORY == "hyperliquid-agent"

SupabaseError ==
  [name |-> "PostgrestError", message |-> <<"connection", "refused">>]

(* createAgentRecord, lines 78-92: the row inserted. *)
InsertedRow ==
  [status |-> "deploying", agent_deployed |-> FALSE,
   deployment |-> [ecr_repository |-> ECR_REPOSITORY,
                   ecs_cluster |-> ECS_CLUSTER]]

(* updateAgentDeployment, lines 288-299: the row as updated. *)
DeployedRow(row, deploymentDetails) ==
  [row EXCEPT !.status = "running",
              !.agent_deployed = TRUE,
              !.deployment =
                 [service_arn |-> deploymentDetails.serviceArn,
                  task_definition_arn |-> deploymentDetails.taskDefArn,
                  log_group |-> deploymentDetails.logGroupName,
                  log_url |-> deploymentDetails.logUrl]]

(* A failure handling that leaves the row as it is. *)
ErrorRowUntouched(row) == row

(* Lines 352-358: the row as updated on a failed deployment. *)
ErrorRow(row) == [row EXCEPT !.status = "error"]

(* Lines 370-377. *)
SuccessResponse(a, deployment) ==
  [code |-> 200, success |-> TRUE, agentId |-> a,
   serviceArn |-> deployment.serviceArn, taskDefArn |-> deployment.taskDefArn,
   logUrl |-> deployment.logUrl, status |-> "running"]

(* Lines 326, 380. *)
FailureResponse(code, msg) == [code |-> code, success |-> FALSE, error |-> msg]

Respond(p, r) ==
  /\ response' = [response EXCEPT ![p] = r]
  /\ pc' = [pc EXCEPT ![p] = "responded"]

(* Lines 325-342, 378-381: a request, taken when no other is being served,
   that ends before a row exists: fields missing, code generation failed, or
   the insert rejected. *)
RejectRequest(p) ==
  /\ \A q \in Procs : pc[q] = "idle"
  /\ \E r \in {FailureResponse(400, <<"Missing required fields">>),
               FailureResponse(500, <<"Code generation failed">>),
               FailureResponse(500, <<"Supabase insert failed: ">>
                                      \o SupabaseError.message)} :
       Respond(p, r)
  /\ UNCHANGED <<env, platform, frame, result, error, calls, before,
                 returned, agents>>

(* Lines 330-346: the insert is answered with the new row, of an id no row
   had, and deployToFargate(agent.id, ...) runs to its first await.  The
   requests are served one after the other. *)
CreateAgentRecord(p, a) ==
  /\ \A q \in Procs : pc[q] = "idle"
  /\ agents[a] = NoAgent
  /\ agents' = [agents EXCEPT ![a] = InsertedRow]
  /\ Enter(p, a)
  /\ UNCHANGED response

(* Lines 346-347, 370-377: deployToFargate has returned and the update of
   the row is answered. *)
UpdateAgentDeployment(p) ==
  /\ pc[p] = "done"
  /\ LET a == frame[p].agentId IN
     \E r \in {NoError, SupabaseError} :
       /\ Record(p, "UpdateAgentDeployment", r, FALSE, FALSE)
       /\ IF r = NoError
          THEN /\ agents' = [agents EXCEPT ![a] = DeployedRow(@, result[p])]
               /\ Respond(p, SuccessResponse(a, result[p]))
               /\ UNCHANGED error
          ELSE /\ pc' = [pc EXCEPT ![p] = "updateFailed"]
               /\ error' = [error EXCEPT ![p] =
                              JsError(<<"Update failed: ">> \o r.message)]
               /\ UNCHANGED <<agents, response>>
  /\ UNCHANGED <<env, platform, frame, result, before, returned>>

(* Lines 348-368, 378-381: deployToFargate or updateAgentDeployment has
   thrown; the status update is answered and the error is sent. *)
MarkError(p) ==
  /\ pc[p] \in {"failed", "updateFailed"}
  /\ LET a == frame[p].agentId IN
     \E r \in {NoError, SupabaseError} :
       /\ Record(p, "UpdateStatus", r, FALSE, FALSE)
       /\ agents' = IF r = NoError
                    THEN [agents EXCEPT ![a] = ErrorRow(@)]
                    ELSE agents
       /\ Respond(p, FailureResponse(500, error[p].message))
  /\ UNCHANGED <<env, platform, frame, result, error, before, returned>>

(* The response has gone out and the handler has returned. *)
EndRequest(p) ==
  /\ pc[p] = "responded"
  /\ pc' = [pc EXCEPT ![p] = "idle"]
  /\ frame' = [frame EXCEPT ![p] = NoFrame]
  /\ result' = [result EXCEPT ![p] = NoResult]
  /\ error' = [error EXCEPT ![p] = NoError]
  /\ calls' = [calls EXCEPT ![p] = <<>>]
  /\ before' = [before EXCEPT ![p] = NoSnapshot]
  /\ response' = [response EXCEPT ![p] = NoResponse]
  /\ UNCHANGED <<env, platform, returned, agents>>

DeployNext ==
  \/ \E p \in Procs : RejectRequest(p)
  \/ \E p \in Procs, a \in AgentIds : CreateAgentRecord(p, a)
  \/ Step
  \/ \E p \in Procs : UpdateAgentDeployment(p)
  \/ \E p \in Procs : MarkError(p)
  \/ \E p \in Procs : EndRequest(p)

DeploySpec == Init /\ [][DeployNext]_vars

(* ------------------------------ claims -------------------------------- *)
Count(p, op) == Cardinality({i \in DOMAIN calls[p] : calls[p][i].op = op})

AllAccepted(p) == \A i \in DOMAIN calls[p] : calls[p][i].ok

Issued(p, op, ok) ==
  \E i \in DOMAIN calls[p] : calls[p][i].op = op /\ calls[p][i].ok = ok

DescribedEmpty(p) ==
  \E i \in DOMAIN calls[p] :
     calls[p][i].op = "DescribeServices" /\ calls[p][i].ok /\ ~calls[p][i].found

DescribedFound(p) ==
  \E i \in DOMAIN calls[p] :
     calls[p][i].op = "DescribeServices" /\ calls[p][i].found

ActiveServices(a) ==
  {s \in services : s.serviceName = serviceNameOf(a) /\ s.status = "ACTIVE"}

(* The agent has one ACTIVE service, of one desired instance, on the task
   definition that invocation p registered and returned. *)
Converged(p) ==
  /\ Cardinality(ActiveServices(frame[p].agentId)) = 1
  /\ \A s \in ActiveServices(frame[p].agentId) :
       /\ s.desiredCount = 1
       /\ s.taskDefinition = result[p].taskDefArn
  /\ result[p].taskDefArn.family = taskFamilyOf(frame[p].agentId)
  /\ result[p].taskDefArn.revision > before[p].latestRevision
  /\ \E t \in taskDefs : /\ t.family = result[p].taskDefArn.family
                         /\ t.revision = result[p].taskDefArn.revision

(* C1: an invocation that found no service (DescribeServices accepted, empty
   list) and had every call accepted has issued exactly one CreateService, no
   UpdateService and no DeleteService, and leaves one ACTIVE service of
   desiredCount 1 on the task definition it registered itself. *)
C1_CreateFromAbsent ==
  \A p \in Procs :
    (pc[p] = "done" /\ DescribedEmpty(p) /\ AllAccepted(p)) =>
      /\ Count(p, "CreateService") = 1
      /\ Count(p, "UpdateService") = 0
      /\ Count(p, "DeleteService") = 0
      /\ Converged(p)

C1_Witness ==
  \E p \in Procs : pc[p] = "done" /\ DescribedEmpty(p) /\ AllAccepted(p)

UpdateAccepted(p) == Issued(p, "UpdateService", TRUE)

UpdateRejected(p) == Issued(p, "UpdateService", FALSE)

(* An invocation whose update was accepted: one forced UpdateService, no
   delete, no create, and the service now on the new task definition B, which
   is not the definition A it ran before. *)
UpdatedInPlace(p) ==
  /\ Count(p, "UpdateService") = 1
  /\ \A i \in DOMAIN calls[p] :
       calls[p][i].op = "UpdateService" => calls[p][i].force
  /\ Count(p, "DeleteService") = 0
  /\ Count(p, "CreateService") = 0
  /\ Converged(p)
  /\ result[p].taskDefArn # before[p].taskDefinition

(* No step takes a service that stays ACTIVE from some running instance to
   none. *)
NeverDrainsToZero ==
  \A s \in services : \A t \in services' :
    (/\ t.serviceName = s.serviceName
     /\ s.status = "ACTIVE" /\ t.status = "ACTIVE"
     /\ Running(s) >= 1) => Running(t) >= 1

(* C2: an invocation that found a service and whose UpdateService was
   accepted has issued exactly one UpdateService, with forceNewDeployment, and
   no DeleteService or CreateService; it leaves one ACTIVE service on the new
   task definition; and the rollout that follows never leaves the service
   without a running instance. *)
C2_UpdateInPlace ==
  /\ [](\A p \in Procs :
          (pc[p] = "done" /\ DescribedFound(p) /\ UpdateAccepted(p))
             => UpdatedInPlace(p))
  /\ [][NeverDrainsToZero]_vars

(* The rollout of an accepted update has completed: the new task runs and
   the old one has stopped. *)
C2_Witness ==
  \E p \in Procs :
    /\ pc[p] = "done" /\ DescribedFound(p) /\ UpdateAccepted(p)
    /\ before[p].status = "ACTIVE"
    /\ ThisService(p).runningNew = 1
    /\ ThisService(p).runningOld = 0

IndexOf(p, op) ==
  CHOOSE i \in DOMAIN calls[p] :
    /\ calls[p][i].op = op
    /\ \A j \in DOMAIN calls[p] : calls[p][j].op = op => i <= j

(* After a rejected update the calls continue DeleteService (forced), and
   after an accepted delete Wait and then CreateService. *)
RecoveryOrder(p) ==
  LET u == IndexOf(p, "UpdateService")
      n == Len(calls[p]) IN
  /\ n = u => pc[p] = "DeleteService"
  /\ n > u => /\ calls[p][u + 1].op = "DeleteService"
              /\ calls[p][u + 1].force
  /\ (n > u /\ calls[p][u + 1].ok) =>
       /\ n = u + 1 => pc[p] = "Wait"
       /\ n > u + 1 => calls[p][u + 2].op = "Wait"
       /\ n = u + 2 => pc[p] = "RecreateService"
       /\ n > u + 2 => calls[p][u + 3].op = "CreateService"

(* C3: when a service was found and UpdateService is rejected, the invocation
   issues DeleteService with force, then waits, then issues CreateService, in
   that order; when the delete and the create are accepted it ends with one
   ACTIVE service on the newly registered task definition. *)
C3_DeleteWaitCreate ==
  \A p \in Procs :
    (DescribedFound(p) /\ UpdateRejected(p)) =>
      /\ RecoveryOrder(p)
      /\ (/\ pc[p] = "done"
          /\ Issued(p, "DeleteService", TRUE)
          /\ calls[p][Len(calls[p])] = Call("CreateService", NoError, FALSE, FALSE))
         => Converged(p)

C3_Witness ==
  \E p \in Procs :
    /\ pc[p] = "done" /\ DescribedFound(p) /\ UpdateRejected(p)
    /\ Issued(p, "DeleteService", TRUE)
    /\ Count(p, "Wait") = 1
    /\ calls[p][Len(calls[p])] = Call("CreateService", NoError, FALSE, FALSE)

(* The recovery of a rejected update failed: the delete was rejected, or the
   create that followed an accepted delete was. *)
RecoveryFailed(p) ==
  /\ UpdateRejected(p)
  /\ \/ Issued(p, "DeleteService", FALSE)
     \/ /\ Issued(p, "DeleteService", TRUE)
        /\ LET w == IndexOf(p, "Wait") IN
           /\ Count(p, "Wait") = 1
           /\ Len(calls[p]) > w
           /\ ~calls[p][w + 1].ok

(* C4: when the update is rejected and the recovery fails, the invocation
   fails, and the message of the error it throws contains the message of the
   update error and the message of the recovery error. *)
C4_BothReasonsReported ==
  \A p \in Procs :
    (RecoveryFailed(p) /\ pc[p] \in {"done", "failed"}) =>
      /\ pc[p] = "failed"
      /\ Includes(error[p].message, frame[p].updateErr.message)
      /\ Includes(error[p].message, frame[p].deleteErr.message)

ConfigInvalid ==
  \/ Len(env.SUBNET_IDS) = 0
  \/ Len(env.SECURITY_GROUP_IDS) = 0
  \/ env.ECS_EXECUTION_ROLE_ARN = ""

ConfigMessages ==
  {<<v, "environment", "variable", "is", "required">> :
     v \in {"SUBNET_IDS", "SECURITY_GROUP_IDS", "ECS_EXECUTION_ROLE_ARN"}}

(* C5: with an empty subnet list, an empty security-group list or no
   execution role, every invocation fails with the configuration error having
   issued no platform call, and no log group, task definition or service is
   created, changed or deleted. *)
C5_FailFastOnConfiguration ==
  /\ [](ConfigInvalid =>
          /\ returned = {}
          /\ \A p \in Procs :
               /\ pc[p] \in {"idle", "failed"}
               /\ calls[p] = <<>>
               /\ pc[p] = "failed" =>
                    error[p].name = "Error" /\ error[p].message \in ConfigMessages)
  /\ [][ConfigInvalid =>
          /\ logGroups' = logGroups /\ taskDefs' = taskDefs
          /\ \A a \in AgentIds : ActiveServices(a)' = ActiveServices(a)]_vars

C5_Witness ==
  \E p \in Procs : pc[p] = "failed" /\ Len(env.SUBNET_IDS) = 0

(* C6: whatever the service was at first and whatever failed in earlier
   invocations, an invocation that returns leaves exactly one service for its
   agent, ACTIVE, of desiredCount 1, on the task definition it returns. *)
C6_OneServicePerAgent ==
  \A p \in Procs :
    pc[p] = "done" =>
      /\ Cardinality(Described(serviceNameOf(frame[p].agentId))) = 1
      /\ Converged(p)

(* A deployment returns with the last revision the bound allows, after an
   earlier deployment has returned. *)
C6_Witness ==
  \E p \in Procs :
    /\ pc[p] = "done"
    /\ Cardinality(returned) >= 2
    /\ result[p].taskDefArn.revision = MaxRevisions

LogGroupsOf(a) == {g \in logGroups : g.logGroupName = logGroupNameOf(a)}

(* ensureLogGroup has returned to invocation p. *)
LogGroupEnsured(p) == Count(p, "PutRetentionPolicy") = 1

(* C7: ensureLogGroup is idempotent: a CreateLogGroup rejected because the
   group exists does not fail it, it returns the same name for the same
   agent on every call, and the agent then has exactly one log group. *)
C7_EnsureLogGroupIdempotent ==
  \A p \in Procs :
    /\ (pc[p] = "failed" /\ Len(calls[p]) = 1) =>
          error[p].name # "ResourceAlreadyExistsException"
    /\ LogGroupEnsured(p) =>
          /\ frame[p].logGroupName = logGroupNameOf(frame[p].agentId)
          /\ Cardinality(LogGroupsOf(frame[p].agentId)) = 1
          /\ \A r \in returned :
               r.taskDefArn.family = taskFamilyOf(frame[p].agentId)
                  => r.logGroupName = frame[p].logGroupName

(* A later call for an agent whose group exists: CreateLogGroup was rejected
   and ensureLogGroup returned all the same. *)
C7_Witness ==
  \E p \in Procs :
    /\ LogGroupEnsured(p)
    /\ ~calls[p][1].ok
    /\ returned # {}

SameArn(t, arn) == t.family = arn.family /\ t.revision = arn.revision

(* A step adds at most one revision, under a handle no revision had, and
   changes or removes none. *)
RevisionsOnlyAdded ==
  /\ taskDefs \subseteq taskDefs'
  /\ Cardinality(taskDefs') <= Cardinality(taskDefs) + 1
  /\ \A t \in taskDefs' \ taskDefs : \A u \in taskDefs :
       ~(u.family = t.family /\ u.revision = t.revision)

(* The handle an invocation returns was returned by none before it. *)
FreshHandleReturned ==
  \A p \in Procs :
    (pc[p] # "done" /\ pc'[p] = "done") =>
       \A r \in returned : r.taskDefArn # result'[p].taskDefArn

(* C8: an invocation registers at most once; an accepted registration adds
   exactly one revision to the agent's family and no step changes or removes
   a revision; successive deployments return distinct handles, and every
   handle returned stays resolvable to one revision. *)
C8_RevisionsImmutable ==
  /\ [](\A p \in Procs :
          /\ Count(p, "RegisterTaskDefinition") <= 1
          /\ Issued(p, "RegisterTaskDefinition", TRUE) =>
               /\ LatestRevision(taskFamilyOf(frame[p].agentId))
                    = before[p].latestRevision + 1
               /\ frame[p].taskDefArn.revision = before[p].latestRevision + 1)
  /\ [](\A r \in returned :
          Cardinality({t \in taskDefs : SameArn(t, r.taskDefArn)}) = 1)
  /\ [][RevisionsOnlyAdded /\ FreshHandleReturned]_vars

(* Two deployments have returned, and the handle of the first resolves. *)
C8_Witness ==
  /\ Cardinality(returned) >= 2
  /\ \E p \in Procs : pc[p] = "done"

Stage(op) ==
  CASE op \in {"CreateLogGroup", "PutRetentionPolicy"} -> 1
    [] op = "RegisterTaskDefinition" -> 2
    [] op = "DescribeServices" -> 3
    [] OTHER -> 4

(* C9: the calls of an invocation come in the order log group, registration,
   describe, then create/update/delete; a failed log-group creation (other
   than already-exists) or a failed registration is the last call; and a
   service is created or updated only when the agent's log group exists. *)
C9_StagesInOrder ==
  \A p \in Procs :
    /\ \A i, j \in DOMAIN calls[p] :
         i < j => Stage(calls[p][i].op) <= Stage(calls[p][j].op)
    /\ \A op \in {"CreateLogGroup", "PutRetentionPolicy",
                  "RegisterTaskDefinition", "DescribeServices"} :
         Count(p, op) <= 1
    /\ \A i \in DOMAIN calls[p] :
         (/\ calls[p][i].op \in {"CreateLogGroup", "RegisterTaskDefinition"}
          /\ ~calls[p][i].ok
          /\ i < Len(calls[p])) =>
            /\ calls[p][i].op = "CreateLogGroup"
            /\ LogGroupExists(logGroupNameOf(frame[p].agentId))
    /\ \A i \in DOMAIN calls[p] :
         (/\ calls[p][i].op \in {"CreateLogGroup", "RegisterTaskDefinition"}
          /\ ~calls[p][i].ok
          /\ i = Len(calls[p])) =>
            pc[p] \in {"failed", "PutRetentionPolicy"}
    /\ (Count(p, "CreateService") + Count(p, "UpdateService") > 0) =>
          /\ LogGroupExists(logGroupNameOf(frame[p].agentId))
          /\ Issued(p, "RegisterTaskDefinition", TRUE)
          /\ Count(p, "DescribeServices") = 1

(* A rejected registration ended the invocation. *)
C9_Witness ==
  \E p \in Procs :
    /\ pc[p] = "failed"
    /\ Len(calls[p]) = 3
    /\ calls[p][3] = Call("RegisterTaskDefinition", ClientException, FALSE, FALSE)

LiveUnchanged(p) ==
  /\ Snapshot(frame[p].agentId).status = before[p].status
  /\ Snapshot(frame[p].agentId).taskDefinition = before[p].taskDefinition
  /\ Snapshot(frame[p].agentId).desiredCount = before[p].desiredCount

FailedInReconciliation(p) ==
  pc[p] = "failed" /\ Count(p, "DescribeServices") = 1

(* C10 as stated: an invocation that fails during service reconciliation
   leaves the agent's live service as it was when the invocation started. *)
C10_FailureLeavesServiceUntouched ==
  \A p \in Procs : FailedInReconciliation(p) => LiveUnchanged(p)

(* C10 as amended: an invocation that fails during service reconciliation
   leaves the agent's live service as it was, unless its DeleteService was
   accepted: then the create that followed failed and the agent is left
   with no live service. *)
C10_FailureUntouchedUnlessDeleted ==
  \A p \in Procs :
    FailedInReconciliation(p) =>
      IF Issued(p, "DeleteService", TRUE)
      THEN ActiveServices(frame[p].agentId) = {}
      ELSE LiveUnchanged(p)

(* The update and the delete were rejected, the invocation failed, and the
   service is still live. *)
C10_Witness ==
  \E p \in Procs :
    /\ FailedInReconciliation(p)
    /\ Issued(p, "DeleteService", FALSE)
    /\ before[p].status = "ACTIVE"

(* C11: a rejected PutRetentionPolicy does not fail ensureLogGroup: the
   invocation holds the log group name and goes on to RegisterTaskDefinition;
   a CreateLogGroup rejected with anything but already-exists fails the
   invocation with that error, and no PutRetentionPolicy is issued. *)
C11_RetentionBestEffort ==
  \A p \in Procs :
    /\ Issued(p, "PutRetentionPolicy", FALSE) =>
         /\ frame[p].logGroupName = logGroupNameOf(frame[p].agentId)
         /\ \/ pc[p] = "RegisterTaskDefinition"
            \/ /\ Len(calls[p]) >= 3
               /\ calls[p][3].op = "RegisterTaskDefinition"
    /\ (/\ calls[p] # <<>>
        /\ ~calls[p][1].ok
        /\ calls[p][1].err.name # "ResourceAlreadyExistsException") =>
         /\ calls[p][1].op = "CreateLogGroup"
         /\ pc[p] = "failed"
         /\ error[p] = calls[p][1].err
         /\ Count(p, "PutRetentionPolicy") = 0

(* The retention policy was rejected and the deployment returned all the
   same. *)
C11_Witness ==
  \E p \in Procs :
    /\ pc[p] = "done"
    /\ Issued(p, "PutRetentionPolicy", FALSE)
    /\ Issued(p, "RegisterTaskDefinition", TRUE)

(* Invocations p and q, in flight together for one agent, were both answered
   an empty list by DescribeServices and have both issued CreateService. *)
BothCreateFromAbsent(p, q) ==
  /\ p # q
  /\ frame[p].agentId = frame[q].agentId
  /\ DescribedEmpty(p) /\ DescribedEmpty(q)
  /\ Count(p, "CreateService") >= 1
  /\ Count(q, "CreateService") >= 1

(* No invocation for agent a has had a DeleteService accepted. *)
NoDelete(a) ==
  \A r \in Procs :
    frame[r].agentId = a => ~Issued(r, "DeleteService", TRUE)

(* C12: two invocations for one agent are not serialized: both can be
   answered an empty list and both issue CreateService for the one service
   name; then (no third invocation having deleted the service) at most one
   of the creations is accepted and the two never both return. *)
C12_RaceOnCreate ==
  \A p, q \in Procs :
    (BothCreateFromAbsent(p, q) /\ NoDelete(frame[p].agentId)) =>
      /\ ~(pc[p] = "done" /\ pc[q] = "done")
      /\ ~(Issued(p, "CreateService", TRUE) /\ Issued(q, "CreateService", TRUE))

(* Both found no service and both issued CreateService: one returned, the
   other failed. *)
C12_Witness ==
  \E p, q \in Procs :
    /\ BothCreateFromAbsent(p, q)
    /\ pc[p] = "done"
    /\ pc[q] = "failed"

(* What the platform holds under the names derived from agent a. *)
ResourcesOf(a) ==
  <<LogGroupsOf(a), Revisions(taskFamilyOf(a)), Described(serviceNameOf(a))>>

Locals(p) == <<pc[p], frame[p], result[p], error[p], calls[p], before[p]>>

(* A step in which invocation p issued a call changes nothing held under
   another agent's names and nothing of another invocation. *)
OnlyOwnResources ==
  \A p \in Procs :
    calls'[p] # calls[p] =>
      /\ \A a \in OwnAgentIds \ {frame[p].agentId} :
            ResourcesOf(a)' = ResourcesOf(a)
      /\ \A q \in Procs \ {p} : Locals(q)' = Locals(q)

(* What holds of an invocation that runs alone: it registers the revision
   after the newest it found, it returns the handles of its own agent, and
   when it returns its agent has one ACTIVE service on that revision. *)
AsWhenAlone(p) ==
  /\ Issued(p, "RegisterTaskDefinition", TRUE) =>
       /\ frame[p].taskDefArn.family = taskFamilyOf(frame[p].agentId)
       /\ frame[p].taskDefArn.revision = before[p].latestRevision + 1
  /\ pc[p] = "done" =>
       /\ result[p].logGroupName = logGroupNameOf(frame[p].agentId)
       /\ result[p].serviceArn = serviceArnOf(serviceNameOf(frame[p].agentId))
       /\ Cardinality(Described(serviceNameOf(frame[p].agentId))) = 1
       /\ Converged(p)
  /\ FailedInReconciliation(p) =>
       IF Issued(p, "DeleteService", TRUE)
       THEN ActiveServices(frame[p].agentId) = {}
       ELSE LiveUnchanged(p)

(* C13: with invocations for different agents interleaved in every way,
   each changes only the log group, the family and the service named after
   its own agent and nothing of the other invocation, and its calls lead to
   the outcome they lead to when it runs alone. *)
C13_AgentsIndependent ==
  /\ [](\A p \in Procs : AsWhenAlone(p))
  /\ [][OnlyOwnResources]_vars

(* Two invocations for different agents are in flight together, one about
   to update its service and one about to create its own. *)
C13_Witness ==
  \E p, q \in Procs :
    /\ frame[p].agentId # frame[q].agentId
    /\ pc[p] = "UpdateService"
    /\ pc[q] = "CreateService"

(* The row of the agent request p deploys. *)
Row(p) == agents[frame[p].agentId]

(* Request p has inserted its row and called deployToFargate. *)
Deploying(p) == frame[p].agentId # ""

(* deployToFargate threw to request p, and the request has been answered. *)
DeploymentFailed(p) ==
  /\ Deploying(p)
  /\ pc[p] = "responded"
  /\ result[p] = NoResult

(* deployToFargate returned to request p, and the request has been
   answered. *)
DeploymentSucceeded(p) ==
  /\ Deploying(p)
  /\ pc[p] = "responded"
  /\ result[p] # NoResult

(* C14: from the start of deployToFargate until it returns or throws the
   agent's row has status 'deploying' and agent_deployed false; after a
   successful deployToFargate whose row update is accepted the row has
   status 'running', agent_deployed true and the returned handles, and the
   response is the success response; after a failed deployToFargate one
   status update is issued, which (when accepted) sets status 'error', and
   the response is a 500 carrying the error, never a success. *)
C14_RecordFollowsDeployment ==
  \A p \in Procs :
    /\ (Deploying(p) /\ pc[p] \notin {"responded", "updateFailed"}) =>
         /\ Row(p).status = "deploying"
         /\ ~Row(p).agent_deployed
    /\ (DeploymentSucceeded(p) /\ Issued(p, "UpdateAgentDeployment", TRUE)) =>
         /\ Row(p).status = "running"
         /\ Row(p).agent_deployed
         /\ Row(p).deployment.service_arn = result[p].serviceArn
         /\ Row(p).deployment.task_definition_arn = result[p].taskDefArn
         /\ Row(p).deployment.log_group = result[p].logGroupName
         /\ Row(p).deployment.log_url = result[p].logUrl
         /\ response[p].code = 200 /\ response[p].success
         /\ response[p].serviceArn = result[p].serviceArn
    /\ DeploymentFailed(p) =>
         /\ Count(p, "UpdateAgentDeployment") = 0
         /\ Count(p, "UpdateStatus") = 1
         /\ Issued(p, "UpdateStatus", TRUE) =>
              Row(p).status = "error" /\ ~Row(p).agent_deployed
         /\ Issued(p, "UpdateStatus", FALSE) => Row(p).status = "deploying"
         /\ response[p].code = 500 /\ ~response[p].success
         /\ response[p].error = error[p].message
    /\ (response[p].code = 200) =>
         DeploymentSucceeded(p) /\ Issued(p, "UpdateAgentDeployment", TRUE)

(* A deployment failed in the service reconciliation, the row was marked
   and the error was sent. *)
C14_Witness ==
  \E p \in Procs :
    /\ DeploymentFailed(p)
    /\ Count(p, "DescribeServices") = 1
    /\ Row(p).status = "error"
    /\ response[p].code = 500

(* C15: after a failed deployToFargate the row still has the status
   'deploying' when the request is answered. *)
C15_StatusRemainsDeploying ==
  \A p \in Procs : DeploymentFailed(p) => Row(p).status = "deploying"

(* The names an invocation for agent a has used: the family of the
   revision it registered, the name of the service it left, the log group
   it holds. *)
NamesUsed(p, family, serviceName, logGroupName) ==
  /\ result[p].taskDefArn.family = family
  /\ \E t \in taskDefs : SameArn(t, result[p].taskDefArn) /\ t.logGroup = logGroupName
  /\ \E s \in services : s.serviceName = serviceName /\ s.status = "ACTIVE"
  /\ result[p].serviceArn
       = <<"arn:aws:ecs:", AWS_REGION, ":service/", ECS_CLUSTER, "/">> \o serviceName
  /\ result[p].logGroupName = logGroupName
  /\ \E g \in logGroups : g.logGroupName = logGroupName

(* C16 as stated: a returning invocation for agent a has used the family
   'agent-' a, the service name 'agent-svc-' a and the log channel
   '/agents/' a, and the log location it returns contains the log channel
   name. *)
C16_NamesAsStated ==
  \A p \in Procs :
    pc[p] = "done" =>
      /\ NamesUsed(p, <<"agent-", frame[p].agentId>>,
                      <<"agent-svc-", frame[p].agentId>>,
                      <<"/", "agents", "/", frame[p].agentId>>)
      /\ Includes(result[p].logUrl, <<"/", "agents", "/", frame[p].agentId>>)

(* C16 as amended: a returning invocation for agent a has used the family
   'hyperliquid-agent-' a, the service name 'agent-svc-' a and the log group
   '/ecs/hyperliquid-agents/' a; every result returned for the agent carries
   the same names; and the log location returned contains the log group name
   URL-encoded ('%2F' for each '/'), not the name itself. *)
C16_NamesAsDerived ==
  \A p \in Procs :
    pc[p] = "done" =>
      /\ NamesUsed(p, <<"hyperliquid-agent-", frame[p].agentId>>,
                      <<"agent-svc-", frame[p].agentId>>,
                      <<"/", "ecs", "/", "hyperliquid-agents", "/",
                        frame[p].agentId>>)
      /\ \A r \in returned :
           r.taskDefArn.family = result[p].taskDefArn.family =>
             /\ r.serviceArn = result[p].serviceArn
             /\ r.logGroupName = result[p].logGroupName
             /\ r.logUrl = result[p].logUrl
      /\ Includes(result[p].logUrl,
                  <<"%2F", "ecs", "%2F", "hyperliquid-agents", "%2F",
                    frame[p].agentId>>)
      /\ ~Includes(result[p].logUrl, result[p].logGroupName)

(* A second deployment of an agent has returned. *)
C16_Witness ==
  \E p \in Procs :
    /\ pc[p] = "done"
    /\ \E r \in returned :
         /\ r.taskDefArn.family = result[p].taskDefArn.family
         /\ r.taskDefArn # result[p].taskDefArn

(* C17: an invocation that has ended has issued each of DescribeServices,
   UpdateService, DeleteService and CreateService at most once, and if a
   CreateService of it was rejected it has failed with that call as its
   last. *)
C17_NoRetry ==
  \A p \in Procs :
    pc[p] \in {"done", "failed"} =>
      /\ \A op \in {"DescribeServices", "UpdateService", "DeleteService",
                    "CreateService"} : Count(p, op) <= 1
      /\ Issued(p, "CreateService", FALSE) =>
           /\ pc[p] = "failed"
           /\ calls[p][Len(calls[p])].op = "CreateService"
           /\ ~calls[p][Len(calls[p])].ok

(* DescribeServices raised a not-found error to invocation p. *)
DescribedNotFound(p) ==
  \E i \in DOMAIN calls[p] :
    /\ calls[p][i].op = "DescribeServices"
    /\ ~calls[p][i].ok
    /\ IsNotFound(calls[p][i].err)

(* The calls of p after its DescribeServices. *)
AfterDescribe(p) ==
  SubSeq(calls[p], IndexOf(p, "DescribeServices") + 1, Len(calls[p]))

(* C18: of two invocations that have ended, one answered an empty list by
   DescribeServices and one a not-found error, whose first CreateService was
   answered alike, each has issued that one CreateService and nothing else
   after the describe, and both have returned or both have failed with the
   same error. *)
C18_AbsenceSignalsAlike ==
  \A p, q \in Procs :
    (/\ pc[p] \in {"done", "failed"} /\ pc[q] \in {"done", "failed"}
     /\ DescribedEmpty(p) /\ DescribedNotFound(q)
     /\ AfterDescribe(p) # <<>> /\ AfterDescribe(q) # <<>>
     /\ AfterDescribe(p)[1] = AfterDescribe(q)[1]) =>
       /\ AfterDescribe(p) = AfterDescribe(q)
       /\ Len(AfterDescribe(p)) = 1
       /\ AfterDescribe(p)[1].op = "CreateService"
       /\ pc[p] = pc[q]
       /\ error[p] = error[q]

(* DescribeServices raised to invocation p an error that is no not-found
   error. *)
DescribeFailedOtherwise(p) ==
  \E i \in DOMAIN calls[p] :
    /\ calls[p][i].op = "DescribeServices"
    /\ ~calls[p][i].ok
    /\ calls[p][i].err.name # "ServiceNotFoundException"
    /\ ~Includes(calls[p][i].err.message, <<"not", "found">>)

(* C19: when DescribeServices raises an error that is no not-found error,
   the invocation fails with that error reported and the describe as its
   last call: no CreateService, UpdateService or DeleteService is issued and
   the agent's service is as it was. *)
C19_DescribeErrorFatal ==
  \A p \in Procs :
    DescribeFailedOtherwise(p) =>
      /\ pc[p] = "failed"
      /\ calls[p][Len(calls[p])].op = "DescribeServices"
      /\ Count(p, "CreateService") = 0
      /\ Count(p, "UpdateService") = 0
      /\ Count(p, "DeleteService") = 0
      /\ Includes(error[p].message, calls[p][Len(calls[p])].err.message)
      /\ LiveUnchanged(p)

(* A describe was rejected with an error that is not not-found while the
   agent had a live service. *)
C19_Witness ==
  \E p \in Procs :
    /\ DescribeFailedOtherwise(p)
    /\ pc[p] = "failed"
    /\ before[p].status = "ACTIVE"

(* C20: when the update was rejected and then the delete was rejected, the
   invocation fails with the rejected DeleteService as its last call. *)
C20_DeleteFailureFatal ==
  \A p \in Procs :
    (/\ pc[p] \in {"done", "failed"}
     /\ Issued(p, "UpdateService", FALSE)
     /\ Issued(p, "DeleteService", FALSE)) =>
       /\ pc[p] = "failed"
       /\ calls[p][Len(calls[p])].op = "DeleteService"
       /\ Count(p, "CreateService") = 0

(* The update was rejected because the service cannot be updated. *)
NonUpdatable(err) == err.name = "ServiceNotActiveException"

(* UpdateService was rejected to invocation p for another reason than the
   service being non-updatable. *)
UpdateFailedOtherwise(p) ==
  \E i \in DOMAIN calls[p] :
    /\ calls[p][i].op = "UpdateService"
    /\ ~calls[p][i].ok
    /\ ~NonUpdatable(calls[p][i].err)

(* C21: an invocation whose UpdateService was rejected for another reason
   than the service being non-updatable has issued no DeleteService and no
   CreateService, and has failed with the error of the update. *)
C21_OnlyNonUpdatableRecovers ==
  \A p \in Procs :
    (pc[p] \in {"done", "failed"} /\ UpdateFailedOtherwise(p)) =>
      /\ Count(p, "DeleteService") = 0
      /\ Count(p, "CreateService") = 0
      /\ pc[p] = "failed"
      /\ Includes(error[p].message, frame[p].updateErr.message)

(* The last call of p was an UpdateService that the platform rejected. *)
LastUpdateRejected(p, n) ==
  /\ n >= 1
  /\ calls[p][n].op = "UpdateService"
  /\ ~calls[p][n].ok

(* C22: DeleteService is issued, or about to be, only directly after an
   UpdateService of the same invocation was rejected, and at most once; an
   invocation whose describe found no service or failed, or whose update
   was accepted, issues none. *)
C22_DeleteOnlyAfterFailedUpdate ==
  \A p \in Procs :
    /\ \A i \in DOMAIN calls[p] :
         calls[p][i].op = "DeleteService" => LastUpdateRejected(p, i - 1)
    /\ pc[p] = "DeleteService" => LastUpdateRejected(p, Len(calls[p]))
    /\ Count(p, "DeleteService") <= 1
    /\ ( \/ DescribedEmpty(p)
         \/ Issued(p, "DescribeServices", FALSE)
         \/ UpdateAccepted(p) ) =>
           (Count(p, "DeleteService") = 0 /\ pc[p] # "DeleteService")

(* Reached: an invocation has ended that issued its one DeleteService after
   its update was rejected. *)
C22_Witness ==
  \E p \in Procs :
    /\ pc[p] \in {"done", "failed"}
    /\ UpdateRejected(p)
    /\ Count(p, "DeleteService") = 1

(* The error p failed with is reported as a failure of the status check
   (the wording of line 273). *)
ReportedAsStatusCheck(p) ==
  /\ error[p].message # <<>>
  /\ Head(error[p].message) = Head(StatusCheckError(NoError).message)

(* The last call of p was a CreateService that the platform rejected. *)
LastCreateRejected(p) ==
  /\ calls[p] # <<>>
  /\ calls[p][Len(calls[p])].op = "CreateService"
  /\ ~calls[p][Len(calls[p])].ok

(* C23: a failed invocation reports a status-check failure only when its
   DescribeServices was rejected, and one that ended on a rejected
   CreateService reports a create failure carrying the message of that
   create. *)
C23_FailureNamesItsStage ==
  \A p \in Procs :
    pc[p] = "failed" =>
      /\ ReportedAsStatusCheck(p) => Issued(p, "DescribeServices", FALSE)
      /\ LastCreateRejected(p) =>
           Includes(error[p].message,
                    CreateError(calls[p][Len(calls[p])].err).message)

(* The platform accepted a CreateService or an UpdateService of request p:
   the request has produced the agent's live service. *)
ProducedService(p) ==
  Issued(p, "CreateService", TRUE) \/ Issued(p, "UpdateService", TRUE)

(* C24: a request answered with a failure whose row has status 'error' has
   had no CreateService or UpdateService accepted; a request that has
   produced the live service is answered with the row 'running' and
   agent_deployed true. *)
C24_ErrorMeansNoService ==
  \A p \in Procs :
    (Deploying(p) /\ pc[p] = "responded") =>
      /\ (response[p].code = 500 /\ Row(p).status = "error") =>
           ~ProducedService(p)
      /\ ProducedService(p) =>
           (Row(p).status = "running" /\ Row(p).agent_deployed)

(* The operations deployToFargate sends to the platform. *)
PlatformOps ==
  {"CreateLogGroup", "PutRetentionPolicy", "RegisterTaskDefinition",
   "DescribeServices", "UpdateService", "DeleteService", "CreateService"}

(* Invocation p has issued each operation at most once, and CreateService at
   most twice. *)
BoundedCalls(p) ==
  /\ \A i \in DOMAIN calls[p] : calls[p][i].op \in PlatformOps \cup {"Wait"}
  /\ \A op \in (PlatformOps \cup {"Wait"}) \ {"CreateService"} : Count(p, op) <= 1
  /\ Count(p, "CreateService") <= 2

(* An invocation that has ended has one outcome: a result with the handle
   of the agent's service and no error, or an error and no result. *)
OneOutcome(p) ==
  /\ pc[p] = "done" =>
       /\ result[p] # NoResult
       /\ result[p].serviceArn = serviceArnOf(serviceNameOf(frame[p].agentId))
       /\ error[p] = NoError
  /\ pc[p] = "failed" =>
       /\ result[p] = NoResult
       /\ error[p] # NoError

InFlight(p) == pc[p] \notin {"idle", "done", "failed"}

(* C25: with every call answered in the end, an invocation in flight comes
   to return or to throw, having issued each platform operation at most
   once (CreateService at most twice), and ends with a result holding the
   service handle or with an error, never both. *)
C25_Terminates ==
  /\ [](\A p \in Procs : BoundedCalls(p) /\ OneOutcome(p))
  /\ \A p \in Procs : InFlight(p) ~> (pc[p] \in {"done", "failed"})

(* Reached: an invocation has returned on its longest path, the recovery
   followed by the create of the outer catch. *)
C25_Witness ==
  \E p \in Procs :
    /\ pc[p] = "done"
    /\ Count(p, "DeleteService") = 1
    /\ Count(p, "CreateService") = 2

(* Two invocations for one agent have both returned. *)
BothReturned(p, q) ==
  /\ p # q
  /\ frame[p].agentId = frame[q].agentId
  /\ pc[p] = "done" /\ pc[q] = "done"

(* The agent's live service runs the newest revision of the agent's
   family. *)
OnNewestRevision(a) ==
  \E s \in ActiveServices(a) :
    /\ s.taskDefinition.family = taskFamilyOf(a)
    /\ s.taskDefinition.revision = LatestRevision(taskFamilyOf(a))

(* C26, as stated: when two invocations for one agent have both returned,
   the live service references the revision registered last. *)
C26_NewestRevisionLive ==
  \A p, q \in Procs :
    BothReturned(p, q) => OnNewestRevision(frame[p].agentId)

====
